---------------------------- MODULE Spec2Model ----------------------------
(***************************************************************************)
(* Model of the workstation provisioning scripts nick_home_box.py (Fedora, *)
(* dnf) and nick_home_box_mint.py (Mint, apt).  A run maps the machine's   *)
(* hostname to a role set, resolves packages, extra repositories and       *)
(* flatpaks from static catalogs, and shells out to the package manager    *)
(* and flatpak in a fixed sequence.                                        *)
(*                                                                         *)
(* Strings that the program only compares for equality are TLA+ strings.   *)
(* Hostnames are sequences of one-character strings, because the program   *)
(* splits them at '.' and sorts them.                                      *)
(***************************************************************************)
EXTENDS Integers, Sequences, FiniteSets, TLC

VARIABLES
    variant,            \* which script runs: "dnf" or "mint"
    hostname,           \* value returned by gethostname()
    pc,                 \* position of main()
    machine_name,       \* main: machine_name
    requested_roles,    \* main: requested_roles
    required_packages,  \* main: required_packages
    extra_repos,        \* main: extra_repos (a list of Repo records)
    repo_idx,           \* main: index of the repo the for loop is at
    required_flatpaks,  \* main: required_flatpaks
    log,                \* external commands run so far, with their status
    stderr,             \* what main wrote to sys.stderr
    exit_code,          \* exit status of the process, Running until it ends
    call                \* a call of a resolution function and its result

vars == <<variant, hostname, pc, machine_name, requested_roles,
          required_packages, extra_repos, repo_idx, required_flatpaks,
          log, stderr, exit_code, call>>

Variants == {"dnf", "mint"}

-----------------------------------------------------------------------------
(* Bounds of the model *)

\* largest role set handed to packages_for_roles
MaxRoles == 3

\* longest package list handed to extra_repos_for_packages
MaxPackages == 3

-----------------------------------------------------------------------------
(* Results of Python calls: a value, or the exception that was raised *)

Ok(v) == [exc |-> "none", val |-> v]

Raise(e) == [exc |-> e]

Raised(r) == r.exc # "none"

-----------------------------------------------------------------------------
(* Hostnames as character sequences *)

jay == <<"j", "a", "y">>

jake == <<"j", "a", "k", "e">>

missy == <<"m", "i", "s", "s", "y">>

ogg == <<"o", "g", "g">>

vimes == <<"v", "i", "m", "e", "s">>

\* characters in ascending code point order ('.' is 46, letters 97..122)
Alphabet == <<".", "a", "b", "c", "d", "e", "f", "g", "h", "i", "j", "k", "l",
              "m", "n", "o", "p", "q", "r", "s", "t", "u", "v", "w", "x", "y",
              "z">>

Ord(c) == CHOOSE i \in 1..Len(Alphabet) : Alphabet[i] = c

\* Python's str < str: lexicographic by code point, a proper prefix is less
RECURSIVE StrLess(_, _)
StrLess(a, b) ==
    IF b = <<>> THEN FALSE
    ELSE IF a = <<>> THEN TRUE
    ELSE IF Ord(Head(a)) # Ord(Head(b)) THEN Ord(Head(a)) < Ord(Head(b))
    ELSE StrLess(Tail(a), Tail(b))

-----------------------------------------------------------------------------
(* Catalogs *)

\* machine_roles with a role for 'jake' that roles has no entry for
machine_roles_undeclared_role(v) ==
    IF v = "dnf" THEN
        << [key |-> jay,   val |-> {"common", "gnome", "home", "work"}],
           [key |-> jake,  val |-> {"common", "kde", "work"}],
           [key |-> missy, val |-> {"common", "gnome", "work"}],
           [key |-> vimes, val |-> {"common", "games", "gnome", "home",
                                    "lazyscan-deps", "nvidia"}] >>
    ELSE
        << [key |-> jay,   val |-> {"common", "gnome", "home", "laptop", "work"}],
           [key |-> jake,  val |-> {"common", "kde", "laptop", "work"}],
           [key |-> missy, val |-> {"common", "gnome", "laptop", "work"}],
           [key |-> ogg,   val |-> {"common", "mate", "home"}],
           [key |-> vimes, val |-> {"common", "games", "home", "laptop",
                                    "nscde-deps", "xfce"}] >>

\* a dict literal keeps insertion order: a list of (key, value) entries
machine_roles(v) ==
    IF v = "dnf" THEN
        << [key |-> jay,   val |-> {"common", "gnome", "home", "work"}],
           [key |-> jake,  val |-> {"common", "gnome", "work"}],
           [key |-> missy, val |-> {"common", "gnome", "work"}],
           [key |-> vimes, val |-> {"common", "games", "gnome", "home",
                                    "lazyscan-deps", "nvidia"}] >>
    ELSE
        << [key |-> jay,   val |-> {"common", "gnome", "home", "laptop", "work"}],
           [key |-> jake,  val |-> {"common", "mate", "laptop", "work"}],
           [key |-> missy, val |-> {"common", "gnome", "laptop", "work"}],
           [key |-> ogg,   val |-> {"common", "mate", "home"}],
           [key |-> vimes, val |-> {"common", "games", "home", "laptop",
                                    "nscde-deps", "xfce"}] >>

lazyscan_deps ==
    {"ImageMagick", "perl(App::cpanminus)", "perl(autodie)",
     "perl(Exporter::Easy)", "perl(Number::Range)", "perl(failures)",
     "perl(File::Slurp)", "perl(List::MoreUtils)", "perl(local::lib)",
     "perl(LockFile::Simple)", "perl(Moo)", "perl(Tk)", "perl(Try::Tiny)",
     "sane-backends", "xterm"}

roles(v) ==
    IF v = "dnf" THEN
        [ common |-> {"firewall-config", "python-mypy"},
          games |-> {"mono-core", "mono-devel", "steam"},
          gnome |-> {"chrome-gnome-shell", "gnome-tweaks"},
          home |-> {"code", "deja-dup", "dotnet-sdk-6.0", "haskell-platform",
                    "java-11-openjdk-devel", "keepassxc", "neovim",
                    "syncthing", "vim-enhanced"},
          nvidia |-> {"akmod-nvidia"},
          work |-> {"code", "dotnet-sdk-6.0", "epiphany", "gajim", "kwrite",
                    "keepassxc", "neovim", "nextcloud-client", "okular",
                    "thunderbird", "thunderbird-wayland", "vim-enhanced",
                    "xournalpp"} ]
        @@ ("lazyscan-deps" :> lazyscan_deps)
    ELSE
        [ common |-> {"emacs", "fd-find", "hplip-gui", "htop", "python3-pip",
                      "python3-mypy", "ripgrep", "seahorse", "stow"},
          games |-> {"mono-devel", "steam"},
          cinnamon |-> {"nemo-seahorse"},
          gnome |-> {"chrome-gnome-shell", "gnome-power-manager",
                     "gnome-tweaks", "seahorse-nautilus"},
          mate |-> {"caja-seahorse", "dconf-editor"},
          home |-> {"code", "deja-dup", "keepassxc", "neovim", "syncthing",
                    "vim-gtk"},
          laptop |-> {"powertop"},
          nvidia |-> {"akmod-nvidia"},
          work |-> {"emacs", "code", "git", "kwrite", "keepassxc", "neovim",
                    "npm", "okular", "vim", "wireguard-tools", "xournalpp"},
          xfce |-> {"gigolo"} ]
        @@ ("lazyscan-deps" :> lazyscan_deps)
        @@ ("nscde-deps" :>
              {"cbatticon", "fvwm", "fvwm-icons", "gkrellm", "gtk3-nocsd",
               "imagemagick", "ksh", "libfile-mimeinfo-perl", "libstroke0",
               "pnmixer", "python3", "python3-pyqt5", "python3-xdg",
               "python3-yaml", "qt5-style-plugins", "qt5ct", "rofi",
               "stalonetray", "x11-utils", "x11-xserver-utils", "xclip",
               "xdotool", "xscreensaver", "xsettingsd", "xterm"})

flatpaks(v) ==
    IF v = "dnf" THEN
        [ common |-> {"com.github.tchx84.Flatseal"},
          gnome |-> {"com.mattjakeman.ExtensionManager"},
          work |-> {"com.brave.Browser"} ]
    ELSE
        [ common |-> {"com.github.tchx84.Flatseal"},
          gnome |-> {},
          work |-> {} ]

dependent_packages(v) ==
    IF v = "dnf" THEN
        ("nextcloud-client-nautilus" :> {"gnome", "work"})
    ELSE
        ("nextcloud-client-nautilus" :> {"gnome", "work"})
        @@ ("caja-nextcloud" :> {"cinnamon", "work"})

package_dnf_repos(v) == [ code |-> {"vscode"} ]

\* only the mint script has hooks; the one hook of 'work' is commented out
role_early_hooks == [ work |-> <<>> ]

-----------------------------------------------------------------------------
(* heredoc: text is a list of lines; a line is its leading spaces and the   *)
(* parts that follow them (no parts: the line is all whitespace)            *)

Line(n, parts) == [indent |-> n, text |-> parts]

isspace(l) == Len(l.text) = 0

startswith(l, template) == l.indent >= template.indent

removeprefix(l, template) == Line(l.indent - template.indent, l.text)

heredoc(lines) ==
    LET first_line == lines[1]
        content_lines == SubSeq(lines, 2, Len(lines) - 1)
        last_line == lines[Len(lines)]
        indentation_template == last_line
    IN  IF ~isspace(first_line) \/ ~isspace(last_line) THEN
            Raise("AssertionError")
        ELSE IF \E i \in 1..Len(content_lines) :
                    ~startswith(content_lines[i], indentation_template) THEN
            Raise("AssertionError")
        ELSE
            Ok([i \in 1..Len(content_lines) |->
                    removeprefix(content_lines[i], indentation_template)])

-----------------------------------------------------------------------------
(* Repo records *)

yumrepo_dnf(name, filestem, baseurl, gpg_key_url) ==
    LET repofile == heredoc(<<
            Line(0, <<>>),
            Line(8, <<"[code]">>),
            Line(8, <<"name=", name>>),
            Line(8, <<"baseurl=", baseurl>>),
            Line(8, <<"enabled=1">>),
            Line(8, <<"gpgcheck=1">>),
            Line(8, <<"gpgkey=", gpg_key_url>>),
            Line(8, <<>>) >>)
    IN  [repofile |-> repofile.val,
         file_stem |-> filestem,
         import_gpg_key |-> gpg_key_url]

yumrepo_mint(repo_lines, filestem, gpg_key_url, gpg_key_basename) ==
    [repofile |-> [i \in 1..Len(repo_lines) |-> Line(0, <<repo_lines[i]>>)],
     file_stem |-> filestem,
     import_gpg_key |-> gpg_key_url,
     gpg_key_basename |-> gpg_key_basename]

dnf_repos(v) ==
    IF v = "dnf" THEN
        [ vscode |-> yumrepo_dnf(
            "Visual Studio Code",
            "vscode",
            "https://packages.microsoft.com/yumrepos/vscode",
            "https://packages.microsoft.com/keys/microsoft.asc") ]
    ELSE
        [ vscode |-> yumrepo_mint(
            <<"deb [arch=amd64,arm64,armhf signed-by=/etc/apt/keyrings/packages.microsoft.gpg] https://packages.microsoft.com/repos/code stable main">>,
            "vscode",
            "https://packages.microsoft.com/keys/microsoft.asc",
            "packages.microsoft.gpg") ]

-----------------------------------------------------------------------------
(* Resolution engine *)

\* dict.get(key, default)
Get(d, k, default) == IF k \in DOMAIN d THEN d[k] ELSE default

\* frozenset().union(*sets)
union(sets) == UNION sets

\* a list holding the elements of a set, in the order iteration yields them
RECURSIVE Iterate(_)
Iterate(S) ==
    IF S = {} THEN <<>>
    ELSE LET x == CHOOSE x \in S : TRUE IN <<x>> \o Iterate(S \ {x})

\* every order in which a set may be iterated
RECURSIVE Orderings(_)
Orderings(S) ==
    IF S = {} THEN {<<>>}
    ELSE UNION {{<<x>> \o rest : rest \in Orderings(S \ {x})} : x \in S}

Elements(seq) == {seq[i] : i \in 1..Len(seq)}

\* the tags collected by extra_repos_for_packages
extra_repo_names(v, required) ==
    union({Get(package_dnf_repos(v), required[i], {}) : i \in 1..Len(required)})

\* the Repo records of each package in turn, with no union of the tags
RECURSIVE repos_per_package(_, _)
repos_per_package(v, required) ==
    IF required = <<>> THEN <<>>
    ELSE LET tags == Iterate(Get(package_dnf_repos(v), Head(required), {}))
         IN  [i \in 1..Len(tags) |-> dnf_repos(v)[tags[i]]]
             \o repos_per_package(v, Tail(required))

\* extra_repos_for_packages chaining the tags instead of uniting them
extra_repos_chained(v, required) == {Ok(repos_per_package(v, required))}

\* the lists extra_repos_for_packages may return: one per iteration order of
\* the frozenset of tags; KeyError when a tag has no Repo record
extra_repos_for_packages(v, required) ==
    LET names == extra_repo_names(v, required)
    IN  IF \E t \in names : t \notin DOMAIN dnf_repos(v) THEN
            {Raise("KeyError")}
        ELSE
            {Ok([i \in 1..Len(order) |-> dnf_repos(v)[order[i]]]) :
                order \in Orderings(names)}

flatpaks_for_individual_roles(v, requested) ==
    union({Get(flatpaks(v), rolename, {}) : rolename \in requested})

packages_for_individual_roles(v, requested) ==
    IF \E rolename \in requested : rolename \notin DOMAIN roles(v) THEN
        Raise("KeyError")
    ELSE
        Ok(union({roles(v)[rolename] : rolename \in requested}))

packages_for_role_combinations(v, requested) ==
    {package_name \in DOMAIN dependent_packages(v) :
        dependent_packages(v)[package_name] \subseteq requested}

packages_for_roles(v, requested) ==
    LET individual == packages_for_individual_roles(v, requested)
    IN  IF Raised(individual) THEN individual
        ELSE Ok(individual.val \cup packages_for_role_combinations(v, requested))

-----------------------------------------------------------------------------
(* main: hostname lookup *)

\* str.split('.')[0]: the characters before the first '.'
RECURSIVE LeadingLabel(_)
LeadingLabel(name) ==
    IF name = <<>> \/ Head(name) = "." THEN <<>>
    ELSE <<Head(name)>> \o LeadingLabel(Tail(name))

\* the key main looks up in machine_roles
lookup_key(v, name) == IF v = "dnf" THEN name ELSE LeadingLabel(name)

keys(d) == [i \in 1..Len(d) |-> d[i].key]

Contains(d, k) == \E i \in 1..Len(d) : d[i].key = k

Lookup(d, k) == d[CHOOSE i \in 1..Len(d) : d[i].key = k].val

\* sorted(): ascending by str <
RECURSIVE Insert(_, _)
Insert(sortedSeq, x) ==
    IF sortedSeq = <<>> THEN <<x>>
    ELSE IF StrLess(x, Head(sortedSeq)) THEN <<x>> \o sortedSeq
    ELSE <<Head(sortedSeq)>> \o Insert(Tail(sortedSeq), x)

RECURSIVE sorted(_)
sorted(seq) ==
    IF seq = <<>> THEN <<>>
    ELSE Insert(sorted(SubSeq(seq, 1, Len(seq) - 1)), seq[Len(seq)])

\* the listing without sorted(): the dict's insertion order
valid_hostnames_unsorted(v) == keys(machine_roles(v))

\* the listing of hostnames in the diagnostic
valid_hostnames(v) == sorted(keys(machine_roles(v)))

\* the text main writes to stderr for an undeclared hostname
diagnostic(v, name) ==
    heredoc(<<
        Line(0, <<>>),
        Line(12, <<"Hostname ", name, " not declared in machine_roles">>),
        Line(12, <<"You need to either:">>),
        Line(16, <<"* declare roles for that hostname in that variable">>),
        Line(16, <<"* set your hostname using hostnamectl hostname">>),
        Line(12, <<"Valid hostnames are: ", valid_hostnames(v)>>),
        Line(12, <<>>) >>)

\* list(chain.from_iterable(role_early_hooks.get(role, []) ...)); the dnf
\* script has no hooks
early_hooks(v, requested) ==
    IF v = "dnf" \/ \A role \in requested : Get(role_early_hooks, role, <<>>) = <<>>
    THEN <<>>
    ELSE <<"hook">>

-----------------------------------------------------------------------------
(* Exit statuses *)

\* sys.exit(4)
ExitUndeclared == 4

\* an exception nobody catches ends the interpreter with status 1
ExitUncaught == 1

\* dnf check-update: "there are updates"
UpdatesAvailable == 100

\* statuses an external command may end with
Statuses == {0, 1, 2, UpdatesAvailable}

-----------------------------------------------------------------------------
(* The run *)

Exit(code) ==
    /\ pc' = "exited"
    /\ exit_code' = <<code>>

\* dnf() with its test inverted: a non-empty package set is not installed
after_repos_inverted(pkgs) == IF pkgs = {} THEN "dnf" ELSE "enable_flathub"

\* where main goes once the repo loop is over: into dnf(), which runs its
\* commands only for a non-empty package set
after_repos(pkgs) == IF pkgs # {} THEN "dnf" ELSE "enable_flathub"

\* where main goes from the top of `for repo in extra_repos`
repo_loop(v, repos, idx, pkgs) ==
    IF idx <= Len(repos)
    THEN (IF v = "dnf" THEN "rpm_import" ELSE "open_key")
    ELSE after_repos(pkgs)

\* run() without check=True: the status is ignored
run_unchecked(here, cmd, stage, status, next) ==
    /\ pc = here
    /\ log' = Append(log, [cmd |-> cmd, stage |-> stage, status |-> status])
    /\ pc' = next
    /\ UNCHANGED exit_code

\* subprocess.run(cmd, check=True) at position `here`: the command runs and
\* is logged; a non-zero status raises CalledProcessError, which nobody catches
run_checked(here, cmd, stage, status, next) ==
    /\ pc = here
    /\ log' = Append(log, [cmd |-> cmd, stage |-> stage, status |-> status])
    /\ IF status # 0 THEN Exit(ExitUncaught)
       ELSE pc' = next /\ UNCHANGED exit_code

Init ==
    /\ variant \in Variants
    /\ hostname \in {jay, jake, missy, ogg, vimes,
                     jay \o <<".", "l", "a", "n">>,
                     ogg \o <<".", "l", "a", "n">>,
                     <<"z", "e", "d">>,
                     <<"z", "e", "d", ".", "l", "a", "n">>,
                     <<".", "j", "a", "y">>}
    /\ pc = "start"
    /\ machine_name = <<>>
    /\ requested_roles = {}
    /\ required_packages = {}
    /\ extra_repos = <<>>
    /\ repo_idx = 1
    /\ required_flatpaks = {}
    /\ log = <<>>
    /\ stderr = <<>>
    /\ exit_code = <<>>
    /\ call = [fn |-> "none"]

\* main, from gethostname() to the first external command
Resolve ==
    /\ pc = "start"
    /\ machine_name' = lookup_key(variant, hostname)
    /\ UNCHANGED <<variant, hostname, log, call, repo_idx, required_flatpaks>>
    /\ IF ~Contains(machine_roles(variant), machine_name') THEN
            LET text == diagnostic(variant, machine_name')
            IN  /\ IF Raised(text)
                   THEN stderr' = stderr /\ Exit(ExitUncaught)
                   ELSE stderr' = text.val /\ Exit(ExitUndeclared)
                /\ UNCHANGED <<requested_roles, required_packages, extra_repos>>
       ELSE
            LET requested == Lookup(machine_roles(variant), machine_name')
                packages == packages_for_roles(variant, requested)
            IN  /\ requested_roles' = requested
                /\ early_hooks(variant, requested) = <<>>
                /\ stderr' = stderr
                /\ IF Raised(packages) THEN
                        /\ Exit(ExitUncaught)
                        /\ UNCHANGED <<required_packages, extra_repos>>
                   ELSE
                        /\ required_packages' = packages.val
                        /\ \E repos \in extra_repos_for_packages(
                                            variant, Iterate(packages.val)) :
                            IF Raised(repos) THEN
                                /\ Exit(ExitUncaught)
                                /\ UNCHANGED extra_repos
                            ELSE
                                /\ extra_repos' = repos.val
                                /\ pc' = repo_loop(variant, repos.val, 1,
                                                   packages.val)
                                /\ UNCHANGED exit_code

unchanged_by_commands ==
    UNCHANGED <<variant, hostname, machine_name, requested_roles,
                required_packages, extra_repos, stderr, call>>

(* install_repo, dnf script *)

RpmImport ==
    /\ variant = "dnf"
    /\ \E status \in Statuses :
        run_checked("rpm_import", "rpm --import", "InstallRepos", status,
                    "tee_repo")
    /\ UNCHANGED <<repo_idx, required_flatpaks>>
    /\ unchanged_by_commands

TeeRepoFile ==
    /\ variant = "dnf"
    /\ \E status \in Statuses :
        run_checked("tee_repo", "tee /etc/yum.repos.d", "InstallRepos", status,
                    "check_update")
    /\ UNCHANGED <<repo_idx, required_flatpaks>>
    /\ unchanged_by_commands

\* install_repo without the special case for 100
tolerated_none(status) == FALSE

\* the status of `dnf check-update` that install_repo lets pass
tolerated(status) == status = UpdatesAvailable

\* run without check=True; ret.check_returncode() unless the status is 100;
\* returning from install_repo moves the for loop on
DnfCheckUpdate ==
    /\ variant = "dnf"
    /\ pc = "check_update"
    /\ \E status \in Statuses :
        /\ log' = Append(log, [cmd |-> "dnf check-update",
                               stage |-> "InstallRepos", status |-> status])
        /\ IF tolerated(status) \/ status = 0 THEN
                /\ repo_idx' = repo_idx + 1
                /\ pc' = repo_loop(variant, extra_repos, repo_idx',
                                   required_packages)
                /\ UNCHANGED exit_code
           ELSE
                /\ Exit(ExitUncaught)
                /\ UNCHANGED repo_idx
    /\ UNCHANGED required_flatpaks
    /\ unchanged_by_commands

(* install_repo, mint script *)

\* open('repo-keys/apt/microsoft.asc') and the temporary file: the key file
\* is there or open() raises
OpenKeyFile ==
    /\ variant = "mint"
    /\ pc = "open_key"
    /\ \E found \in BOOLEAN :
        IF found THEN pc' = "gpg_dearmor" /\ UNCHANGED exit_code
        ELSE Exit(ExitUncaught)
    /\ UNCHANGED <<log, repo_idx, required_flatpaks>>
    /\ unchanged_by_commands

GpgDearmor ==
    /\ variant = "mint"
    /\ \E status \in Statuses :
        run_checked("gpg_dearmor", "gpg --dearmor", "InstallRepos", status,
                    "install_key")
    /\ UNCHANGED <<repo_idx, required_flatpaks>>
    /\ unchanged_by_commands

InstallKey ==
    /\ variant = "mint"
    /\ \E status \in Statuses :
        run_checked("install_key", "install -D /etc/apt/keyrings",
                    "InstallRepos", status, "tee_list")
    /\ UNCHANGED <<repo_idx, required_flatpaks>>
    /\ unchanged_by_commands

TeeSourcesList ==
    /\ variant = "mint"
    /\ \E status \in Statuses :
        run_checked("tee_list", "tee /etc/apt/sources.list.d", "InstallRepos",
                    status, "apt_update")
    /\ UNCHANGED <<repo_idx, required_flatpaks>>
    /\ unchanged_by_commands

\* run(['sudo', 'apt', 'update'], check=True); returning from install_repo
\* moves the for loop on
AptUpdate ==
    /\ variant = "mint"
    /\ \E status \in Statuses :
        run_checked("apt_update", "apt update", "InstallRepos", status,
                    repo_loop(variant, extra_repos, repo_idx + 1,
                              required_packages))
    /\ repo_idx' = IF pc' = "exited" THEN repo_idx ELSE repo_idx + 1
    /\ UNCHANGED required_flatpaks
    /\ unchanged_by_commands

(* dnf(required_packages) *)

DnfInstall ==
    /\ variant = "dnf"
    /\ \E status \in Statuses :
        run_checked("dnf", "dnf install", "InstallPackages", status,
                    "enable_flathub")
    /\ UNCHANGED <<repo_idx, required_flatpaks>>
    /\ unchanged_by_commands

AptGetUpdate ==
    /\ variant = "mint"
    /\ \E status \in Statuses :
        run_checked("dnf", "apt-get update", "InstallPackages", status,
                    "apt_get_install")
    /\ UNCHANGED <<repo_idx, required_flatpaks>>
    /\ unchanged_by_commands

AptGetInstall ==
    /\ variant = "mint"
    /\ \E status \in Statuses :
        run_checked("apt_get_install", "apt-get install", "InstallPackages",
                    status, "enable_flathub")
    /\ UNCHANGED <<repo_idx, required_flatpaks>>
    /\ unchanged_by_commands

(* enable_flathub(), then required_flatpaks is resolved *)

EnableFlathub ==
    /\ pc = "enable_flathub"
    /\ \E status \in Statuses :
        /\ log' = Append(log, [cmd |-> "flatpak remote-add",
                               stage |-> "EnableFlathubRemote",
                               status |-> status])
        /\ IF status # 0 THEN
                /\ Exit(ExitUncaught)
                /\ UNCHANGED required_flatpaks
           ELSE
                /\ required_flatpaks' =
                        flatpaks_for_individual_roles(variant, requested_roles)
                /\ IF required_flatpaks' # {}
                   THEN pc' = "install_flatpaks" /\ UNCHANGED exit_code
                   ELSE Exit(0)
    /\ UNCHANGED repo_idx
    /\ unchanged_by_commands

(* install_flatpaks_from_flathub(required_flatpaks); main returns after it *)

InstallFlatpaks ==
    /\ pc = "install_flatpaks"
    /\ \E status \in Statuses :
        /\ log' = Append(log, [cmd |-> "flatpak install",
                               stage |-> "InstallFlatpaks",
                               status |-> status])
        /\ IF status # 0 THEN Exit(ExitUncaught) ELSE Exit(0)
    /\ UNCHANGED <<repo_idx, required_flatpaks>>
    /\ unchanged_by_commands

Next ==
    \/ Resolve
    \/ RpmImport
    \/ TeeRepoFile
    \/ DnfCheckUpdate
    \/ OpenKeyFile
    \/ GpgDearmor
    \/ InstallKey
    \/ TeeSourcesList
    \/ AptUpdate
    \/ DnfInstall
    \/ AptGetUpdate
    \/ AptGetInstall
    \/ EnableFlathub
    \/ InstallFlatpaks

Spec == Init /\ [][Next]_vars

-----------------------------------------------------------------------------
(* Calls of the resolution functions on their own *)

\* every role either script names, and one that neither does
RoleUniverse ==
    UNION {DOMAIN roles(v) : v \in Variants}
    \cup UNION {DOMAIN flatpaks(v) : v \in Variants}
    \cup UNION {UNION {dependent_packages(v)[p] : p \in DOMAIN dependent_packages(v)} :
                    v \in Variants}
    \cup {"nosuchrole"}

RoleSets == {R \in SUBSET RoleUniverse : Cardinality(R) <= MaxRoles}

\* package names handed to extra_repos_for_packages: with and without an
\* extra repo, a dependent package, and one in no catalog
SamplePackages == {"code", "neovim", "nextcloud-client-nautilus", "nosuchpackage"}

PackageLists == UNION {[1..n -> SamplePackages] : n \in 0..MaxPackages}

Pending == [exc |-> "pending"]

idle ==
    /\ variant \in Variants
    /\ hostname = <<>>
    /\ pc = "idle"
    /\ machine_name = <<>>
    /\ requested_roles = {}
    /\ required_packages = {}
    /\ extra_repos = <<>>
    /\ repo_idx = 1
    /\ required_flatpaks = {}
    /\ log = <<>>
    /\ stderr = <<>>
    /\ exit_code = <<>>

unchanged_by_calls ==
    UNCHANGED <<variant, hostname, pc, machine_name, requested_roles,
                required_packages, extra_repos, repo_idx, required_flatpaks,
                log, stderr, exit_code>>

\* packages_for_roles is about to be called on a role set and on a subset of it
InitRoles ==
    /\ idle
    /\ \E R \in RoleSets : \E sub \in SUBSET R :
        call = [fn |-> "packages_for_roles", done |-> FALSE,
                requested |-> R, smaller |-> sub,
                ret |-> Pending, ret_smaller |-> Pending]

CallPackagesForRoles ==
    /\ call.fn = "packages_for_roles"
    /\ ~call.done
    /\ call' = [call EXCEPT
                    !.done = TRUE,
                    !.ret = packages_for_roles(variant, call.requested),
                    !.ret_smaller = packages_for_roles(variant, call.smaller)]
    /\ unchanged_by_calls

SpecRoles == InitRoles /\ [][CallPackagesForRoles]_vars

\* extra_repos_for_packages is about to be called on a list of package names
InitRepos ==
    /\ idle
    /\ \E required \in PackageLists :
        call = [fn |-> "extra_repos_for_packages", done |-> FALSE,
                required |-> required, ret |-> Pending]

CallExtraReposForPackages ==
    /\ call.fn = "extra_repos_for_packages"
    /\ ~call.done
    /\ \E ret \in extra_repos_for_packages(variant, call.required) :
        call' = [call EXCEPT !.done = TRUE, !.ret = ret]
    /\ unchanged_by_calls

SpecRepos == InitRepos /\ [][CallExtraReposForPackages]_vars

-----------------------------------------------------------------------------
(* Properties of packages_for_roles *)

RolesCalled == call.fn = "packages_for_roles" /\ call.done

\* C1: packages_for_roles(R) returns a result without raising even when R
\* holds a role that is not a key of roles, and such a role contributes no
\* package: the result is that of R without it, plus the dependent packages
\* R enables.
C1_UnknownRoleIsNoError ==
    RolesCalled =>
        /\ ~Raised(call.ret)
        /\ (call.smaller = call.requested \cap DOMAIN roles(variant)) =>
                call.ret.val =
                    call.ret_smaller.val
                    \cup packages_for_role_combinations(variant, call.requested)

\* C2: a dependent package p with required roles S is in
\* packages_for_roles(R) if and only if S is a subset of R.
C2_DependentIffSubset ==
    RolesCalled =>
        \A p \in DOMAIN dependent_packages(variant) :
            (~Raised(call.ret) /\ p \in call.ret.val)
                <=> dependent_packages(variant)[p] \subseteq call.requested

\* C3: packages_for_roles is monotonic: for R' a subset of R,
\* packages_for_roles(R') is a subset of packages_for_roles(R).
C3_Monotonic ==
    RolesCalled =>
        (~Raised(call.ret_smaller) =>
            ~Raised(call.ret) /\ call.ret_smaller.val \subseteq call.ret.val)

-----------------------------------------------------------------------------
(* Properties of a run of main *)

Exited == pc = "exited"

HasDomain(name) == \E i \in 1..Len(name) : name[i] = "."

\* the hostname, cut to its leading label, is a key of machine_roles
Declared == Contains(machine_roles(variant), LeadingLabel(hostname))

Ascending(seq) ==
    \A i, j \in 1..Len(seq) : i < j => StrLess(seq[i], seq[j])

\* C4: when the hostname is not declared in machine_roles, main ends with
\* exit status 4, has written a diagnostic that names the hostname and lists
\* the declared hostnames in ascending order, and has run no external command.
C4_UndeclaredHostnameExits4 ==
    (pc # "start" /\ ~Declared) =>
        /\ Exited
        /\ exit_code = <<4>>
        /\ log = <<>>
        /\ Len(stderr) = 5
        /\ stderr[1].text[2] \in {hostname, LeadingLabel(hostname)}
        /\ LET listing == stderr[5].text[2]
           IN  /\ Ascending(listing)
               /\ Elements(listing) = Elements(keys(machine_roles(variant)))

C4_Witness ==
    /\ Exited
    /\ ~Declared
    /\ exit_code = <<4>>
    /\ stderr # <<>>

StageRank(stage) ==
    CASE stage = "InstallRepos" -> 1
      [] stage = "InstallPackages" -> 2
      [] stage = "EnableFlathubRemote" -> 3
      [] stage = "InstallFlatpaks" -> 4

Ran(stage) == \E i \in 1..Len(log) : log[i].stage = stage

\* a command of the given set ended with status `status` before position j
Before(j, cmds, statuses) ==
    \E i \in 1..(j - 1) : log[i].cmd \in cmds /\ log[i].status \in statuses

\* C5: the stages run in the order InstallRepos, InstallPackages,
\* EnableFlathubRemote, InstallFlatpaks: no command of a stage runs before a
\* command of an earlier stage, every resolved repo is installed before the
\* package install begins, the package install has succeeded before the
\* remote-add runs, and the remote-add has succeeded before flatpaks install.
C5_FixedStageOrder ==
    /\ \A i, j \in 1..Len(log) :
            i < j => StageRank(log[i].stage) <= StageRank(log[j].stage)
    /\ \A j \in 1..Len(log) :
        /\ log[j].stage = "InstallPackages" =>
            /\ repo_idx = Len(extra_repos) + 1
            /\ Cardinality({i \in 1..(j - 1) :
                    log[i].cmd \in {"dnf check-update", "apt update"}})
                = Len(extra_repos)
        /\ log[j].stage = "EnableFlathubRemote" =>
            Before(j, {"dnf install", "apt-get install"}, {0})
        /\ log[j].stage = "InstallFlatpaks" =>
            Before(j, {"flatpak remote-add"}, {0})

C5_Witness ==
    /\ Exited
    /\ exit_code = <<0>>
    /\ Ran("InstallRepos")
    /\ Ran("InstallPackages")
    /\ Ran("EnableFlathubRemote")
    /\ Ran("InstallFlatpaks")

\* C6: in both scripts a hostname '<label>.<domain>' whose leading label is
\* declared in machine_roles resolves to that label's role set and is not
\* rejected as unknown.
C6_DomainSuffixStripped ==
    (pc # "start" /\ HasDomain(hostname) /\ Declared) =>
        /\ exit_code # <<4>>
        /\ requested_roles =
                Lookup(machine_roles(variant), LeadingLabel(hostname))

\* the status is a failure of the command: non-zero, and not the 100 of
\* `dnf check-update`
Failure(entry) ==
    /\ entry.status # 0
    /\ ~(entry.cmd = "dnf check-update" /\ entry.status = 100)

\* C7: when an external command fails, the process ends with that command's
\* status as its own exit status; a run in which no command fails exits 0.
C7_ExitStatusIsToolStatus ==
    (Exited /\ log # <<>>) =>
        LET last == log[Len(log)]
        IN  IF Failure(last) THEN exit_code = <<last.status>>
            ELSE exit_code = <<0>>

\* C8: once an external command has failed the run is over: the process has
\* exited with a non-zero status and the failed command is the last one run,
\* so no later command runs and none is run again.
C8_AbortOnError ==
    \A i \in 1..Len(log) :
        Failure(log[i]) =>
            /\ i = Len(log)
            /\ Exited
            /\ exit_code # <<0>>

C8_Witness ==
    /\ Exited
    /\ log # <<>>
    /\ Failure(log[Len(log)])
    /\ log[Len(log)].stage = "InstallRepos"
    /\ Len(log) > 1

\* position i is the last command and the process has ended in an error
FatalAt(i) == i = Len(log) /\ Exited /\ exit_code # <<0>>

\* C9: in the dnf script `dnf check-update` ending with 100 or 0 lets the run
\* go on and any other status ends it; in the mint script every non-zero
\* status of `apt update` ends the run.
C9_Status100Tolerated ==
    \A i \in 1..Len(log) :
        /\ log[i].cmd = "dnf check-update" =>
            /\ variant = "dnf"
            /\ log[i].status \in {0, 100} =>
                    \/ i = Len(log) /\ pc = "dnf"
                    \/ i < Len(log) /\ log[i + 1].cmd = "dnf install"
            /\ log[i].status \notin {0, 100} => FatalAt(i)
        /\ log[i].cmd = "apt update" =>
            /\ variant = "mint"
            /\ log[i].status # 0 <=> FatalAt(i)

C9_Witness ==
    /\ variant = "dnf"
    /\ \E i \in 1..Len(log) :
        /\ log[i].cmd = "dnf check-update"
        /\ log[i].status = 100
        /\ i < Len(log)
        /\ log[i + 1].cmd = "dnf install"

-----------------------------------------------------------------------------
(* Properties of extra_repos_for_packages *)

ReposCalled == call.fn = "extra_repos_for_packages" /\ call.done

Occurrences(seq, x) == Cardinality({i \in 1..Len(seq) : seq[i] = x})

\* some package of the list maps to tag t in package_dnf_repos
Requires(required, t) ==
    \E i \in 1..Len(required) :
        /\ required[i] \in DOMAIN package_dnf_repos(variant)
        /\ t \in package_dnf_repos(variant)[required[i]]

\* C10: extra_repos_for_packages(P) raises no error and holds the Repo record
\* of tag t exactly once when some package of P maps to t in
\* package_dnf_repos, and not at all otherwise; it holds nothing else.
C10_RepoExactlyOnce ==
    ReposCalled =>
        /\ ~Raised(call.ret)
        /\ \A t \in DOMAIN dnf_repos(variant) :
            Occurrences(call.ret.val, dnf_repos(variant)[t]) =
                IF Requires(call.required, t) THEN 1 ELSE 0
        /\ \A i \in 1..Len(call.ret.val) :
            \E t \in DOMAIN dnf_repos(variant) :
                call.ret.val[i] = dnf_repos(variant)[t]

\* the same tag is required twice and a package of no catalog is in the list
C10_Witness ==
    /\ ReposCalled
    /\ Cardinality({i \in 1..Len(call.required) : call.required[i] = "code"}) >= 2
    /\ \E i \in 1..Len(call.required) : call.required[i] = "nosuchpackage"
    /\ ~Raised(call.ret)
    /\ Len(call.ret.val) = 1

-----------------------------------------------------------------------------
(* Catalog invariant *)

\* main is in, or has been in, one of the installation stages
ReachedInstallation ==
    \/ pc \in {"rpm_import", "tee_repo", "check_update", "open_key",
               "gpg_dearmor", "install_key", "tee_list", "apt_update", "dnf",
               "apt_get_install", "enable_flathub", "install_flatpaks"}
    \/ log # <<>>
    \* install_repo of the mint script ended at open() of the key file
    \/ Exited /\ variant = "mint" /\ repo_idx <= Len(extra_repos)

\* C11: every role of every machine_roles entry is a key of roles, so for a
\* declared hostname the resolution raises no lookup error: the role set,
\* the package set and the repos are resolved, nothing is written to stderr
\* and the run reaches the installation stages.
C11_MachineRolesAreCatalogRoles ==
    /\ \A i \in 1..Len(machine_roles(variant)) :
            machine_roles(variant)[i].val \subseteq DOMAIN roles(variant)
    /\ (pc # "start" /\ Contains(machine_roles(variant), hostname)) =>
        /\ requested_roles = Lookup(machine_roles(variant), hostname)
        /\ required_packages =
                UNION {roles(variant)[r] : r \in requested_roles}
                \cup {p \in DOMAIN dependent_packages(variant) :
                        dependent_packages(variant)[p] \subseteq requested_roles}
        /\ required_packages # {}
        /\ \A i \in 1..Len(extra_repos) :
                \E t \in DOMAIN dnf_repos(variant) :
                    extra_repos[i] = dnf_repos(variant)[t]
        /\ stderr = <<>>
        /\ exit_code # <<4>>
        /\ ReachedInstallation
        /\ (Exited /\ exit_code = <<0>>) =>
                required_flatpaks =
                    UNION {Get(flatpaks(variant), r, {}) : r \in requested_roles}

\* a declared hostname whose roles include one with no flatpaks entry has
\* run to the end
C11_Witness ==
    /\ Contains(machine_roles(variant), hostname)
    /\ \E r \in requested_roles : r \notin DOMAIN flatpaks(variant)
    /\ Exited
    /\ exit_code = <<0>>
    /\ required_flatpaks # {}

=============================================================================
